---- MODULE Spec2Model ----
(***************************************************************************)
(* Client-side authentication-session lifecycle of the Vite + Keycloak     *)
(* demo: the keycloak singleton (src/keycloak.ts), the bootstrap in         *)
(* src/main.tsx, the route table of src/App.tsx, the guard                  *)
(* src/components/ProtectedRoute.tsx and the Navbar with its adapter-event  *)
(* subscriptions (src/components/Navbar.tsx, kept as unnamed/part_000).     *)
(*                                                                         *)
(* The keycloak-js adapter is an external library.  Its entry points       *)
(* (init, login, logout, updateToken) are modelled as calls that stay in   *)
(* flight until the adapter settles them, and its lifecycle notifications  *)
(* as events that may arrive in any order once init has been called.  An   *)
(* event action is the adapter's own change of keycloak.authenticated      *)
(* followed by the handler the application has put in the callback slot.   *)
(***************************************************************************)
EXTENDS Integers, Sequences, FiniteSets, TLC

\* ---------------------------------------------------------------- bounds
MaxCalls == 2       \* keycloak.logout() calls in flight
MaxClicks == 1      \* Login clicks, and Logout clicks, per page load
MaxPending == 2     \* updateToken promises in flight

\* ------------------------------------------------------------- constants
MinValidity == 30   \* keycloak.updateToken(30)
StrictModeRuns == 2 \* <React.StrictMode> runs a mount effect twice in development

Undefined == "undefined"

\* import.meta.env: each variable is either supplied at build time or undefined
EnvUrls == {Undefined, "http://id.example"}
EnvRealms == {Undefined, "r1"}
EnvClientIds == {Undefined, "c1"}

\* the environments considered: fully populated, or with one variable missing
Envs ==
    {e \in [url : EnvUrls, realm : EnvRealms, clientId : EnvClientIds] :
        Cardinality({f \in {"url", "realm", "clientId"} : e[f] = Undefined}) <= 1}

Paths == {"/", "/protected", "/other"}

\* keycloak.authenticated is undefined until the adapter sets it
Flags == {Undefined, "true", "false"}

\* the callers of keycloak.logout()
LogoutOrigins == {"handleLogout", "onAuthRefreshError", "updateTokenCatch"}

NoHandle == [url |-> "none", realm |-> "none", clientId |-> "none"]
NoState == "null"

VARIABLES
    env,        \* import.meta.env.VITE_KEYCLOAK_{URL,REALM,CLIENT_ID}
    pc,         \* module evaluation: "import" -> "main" -> "done"
    handle,     \* configuration the Keycloak instance was constructed with
    initState,  \* the promise of keycloak.init: none, pending, resolved, rejected
    initCalls,  \* number of keycloak.init calls of this page load
    screen,     \* what root.render was last given: blank, loading, app, error
    kcAuth,     \* keycloak.authenticated
    tokenParsed, \* keycloak.tokenParsed: the parsed claims of the session, or undefined
    effectRuns, \* how often the Navbar's subscription effect has run
    navAuth,    \* Navbar's isAuthenticated state ("unmounted" before the first render)
    path,       \* location.pathname
    locState,   \* location.state
    gateFlag,   \* isAuthenticated read by the ProtectedRoute of the current render, or "none"
    routeOut,   \* element shown by <Routes>
    logouts,    \* keycloak.logout() calls in flight, by caller
    refreshes,  \* keycloak.updateToken() promises in flight
    loginCalls, \* number of keycloak.login() calls of this page load
    alerts,     \* number of alert() dialogs shown in this page load
    unhandled   \* a rejected promise of a Session Watcher call had no rejection handler

vars == <<env, pc, handle, initState, initCalls, screen, kcAuth, tokenParsed, effectRuns,
          navAuth, path, locState, gateFlag, routeOut, logouts, refreshes, loginCalls,
          alerts, unhandled>>

\* ------------------------------------------------------- src/keycloak.ts
\* a || b on strings: undefined and "" are falsy
OrDefault(v, d) == IF v = Undefined \/ v = "" THEN d ELSE v

keycloakUrl(e) == OrDefault(e.url, "http://localhost:7777")
keycloakRealm(e) == OrDefault(e.realm, "viprealm")
keycloakClientId(e) == OrDefault(e.clientId, "vipclient")

\* new Keycloak({url, realm, clientId})
NewKeycloak(e) ==
    [url |-> keycloakUrl(e), realm |-> keycloakRealm(e), clientId |-> keycloakClientId(e)]

\* evaluation of the module src/keycloak.ts, imported by main.tsx
KeycloakModule ==
    /\ pc = "import"
    /\ handle' = NewKeycloak(env)
    /\ pc' = "main"
    /\ UNCHANGED <<env, initState, initCalls, screen, kcAuth, tokenParsed, effectRuns,
                   navAuth, path, locState, gateFlag, routeOut, logouts, refreshes,
                   loginCalls, alerts, unhandled>>

\* ------------------------------------------- src/components/ProtectedRoute.tsx
\* ProtectedRoute testing isAuthenticated === false instead of !isAuthenticated
ProtectedRouteStrictFalse(isAuthenticated) ==
    IF isAuthenticated = "false" THEN "unauthorized" ELSE "outlet"

\* if (!isAuthenticated) <Unauthorized/> else <Outlet/>
ProtectedRoute(isAuthenticated) ==
    IF isAuthenticated # "true" THEN "unauthorized" ELSE "outlet"

\* ProtectedRoute with Option 1 of its denial branch enabled: keycloak.login()
GateLoginOnDenial(isAuthenticated, calls) ==
    IF isAuthenticated # "true" THEN calls + 1 ELSE calls

\* lines 14-32: the keycloak.login() calls rendering the gate adds to those made so
\* far; both calls in the denial branch (lines 16 and 28) are commented out
GateLoginCalls(isAuthenticated, calls) == calls

\* ----------------------------------------------------------- src/App.tsx
\* whether the route matching p is nested under <Route element={<ProtectedRoute />}>
Gated(p) == p = "/protected"

\* the element <Routes> shows for pathname p when keycloak.authenticated is a
Routes(p, a) ==
    IF p = "/" THEN "PublicPage"
    ELSE IF Gated(p)
         THEN (IF ProtectedRoute(a) = "outlet" THEN "ProtectedPage" ELSE "Unauthorized")
         ELSE "NotFound"

\* the value ProtectedRoute reads on line 12 when <Routes> renders pathname p
GateRead(p, a) == IF Gated(p) THEN a ELSE "none"

\* the keycloak.login() calls made once <Routes> has rendered pathname p
RoutesLoginCalls(p, a, calls) == IF Gated(p) THEN GateLoginCalls(a, calls) ELSE calls

\* keycloak.tokenParsed as the pages and the Navbar read it (ProtectedPage lines
\* 37-39, Navbar line 63): the adapter keeps parsed claims while authenticated
TokenParsed(a) == IF a = "true" THEN "claims" ELSE Undefined

\* ---------------------------------------------------------- src/main.tsx
\* Main with <App/> rendered at once instead of the loading message
MainRendersApp ==
    /\ pc = "main"
    /\ pc' = "done"
    /\ screen' = "app"
    /\ initCalls' = initCalls + 1
    /\ initState' = "pending"
    /\ navAuth' = kcAuth
    /\ gateFlag' = GateRead(path, kcAuth)
    /\ routeOut' = Routes(path, kcAuth)
    /\ UNCHANGED <<env, handle, kcAuth, tokenParsed, effectRuns, path, locState, logouts,
                   refreshes, loginCalls, alerts, unhandled>>

\* lines 8-26: render the loading message, then call keycloak.init
Main ==
    /\ pc = "main"
    /\ pc' = "done"
    /\ screen' = "loading"
    /\ initCalls' = initCalls + 1
    /\ initState' = "pending"
    /\ UNCHANGED <<env, handle, kcAuth, tokenParsed, effectRuns, navAuth, path, locState,
                   gateFlag, routeOut, logouts, refreshes, loginCalls, alerts, unhandled>>

\* lines 27-37: init resolves; root.render(<App/>) mounts the Navbar, whose
\* useState(keycloak.authenticated) takes the flag as it is, and <Routes>
InitResolved(authenticated) ==
    /\ initState = "pending"
    /\ initState' = "resolved"
    /\ kcAuth' = authenticated
    /\ tokenParsed' = TokenParsed(kcAuth')
    /\ screen' = "app"
    /\ navAuth' = kcAuth'
    /\ gateFlag' = GateRead(path, kcAuth')
    /\ routeOut' = Routes(path, kcAuth')
    /\ loginCalls' = RoutesLoginCalls(path, kcAuth', loginCalls)
    /\ UNCHANGED <<env, pc, handle, initCalls, effectRuns, path, locState, logouts,
                   refreshes, alerts, unhandled>>

\* InitRejected with the .catch callback rendering <App/> all the same
InitRejectedRendersApp ==
    /\ initState = "pending"
    /\ initState' = "rejected"
    /\ screen' = "app"
    /\ navAuth' = kcAuth
    /\ gateFlag' = GateRead(path, kcAuth)
    /\ routeOut' = Routes(path, kcAuth)
    /\ UNCHANGED <<env, pc, handle, initCalls, kcAuth, tokenParsed, effectRuns, path,
                   locState, logouts, refreshes, loginCalls, alerts, unhandled>>

\* lines 38-50: init rejects; root.render(error panel)
InitRejected ==
    /\ initState = "pending"
    /\ initState' = "rejected"
    /\ screen' = "error"
    /\ UNCHANGED <<env, pc, handle, initCalls, kcAuth, tokenParsed, effectRuns, navAuth,
                   path, locState, gateFlag, routeOut, logouts, refreshes, loginCalls,
                   alerts, unhandled>>

\* ------------------------------------- src/components/Navbar.tsx (part_000)
\* line 13: setIsAuthenticated(keycloak.authenticated ?? false)
updateAuthState(authenticated) ==
    IF authenticated = Undefined THEN "false" ELSE authenticated

\* Subscribed with the slots assigned at module level, next to new Keycloak(...)
SubscribedAtImport == pc # "import"

\* the five callback slots are assigned together by the effect of lines 12-40
Subscribed == effectRuns > 0

\* Notify with the slots left empty
NotifyDetached(a) == navAuth

\* what a callback slot holding updateAuthState does to isAuthenticated when the
\* adapter fires it with keycloak.authenticated = a; an empty slot does nothing
Notify(a) == IF Subscribed THEN updateAuthState(a) ELSE navAuth

\* NavbarEffect without the initial check of line 32
NavbarEffectNoInitialCheck ==
    /\ screen = "app"
    /\ effectRuns < StrictModeRuns
    /\ effectRuns' = effectRuns + 1
    /\ UNCHANGED <<env, pc, handle, initState, initCalls, screen, kcAuth, tokenParsed,
                   navAuth, path, locState, gateFlag, routeOut, logouts, refreshes,
                   loginCalls, alerts, unhandled>>

\* NavbarEffect with keycloak.init moved into the effect
NavbarEffectInit ==
    /\ screen = "app"
    /\ effectRuns < StrictModeRuns
    /\ effectRuns' = effectRuns + 1
    /\ navAuth' = updateAuthState(kcAuth)
    /\ initCalls' = initCalls + 1
    /\ UNCHANGED <<env, pc, handle, initState, screen, kcAuth, tokenParsed, path, locState,
                   gateFlag, routeOut, logouts, refreshes, loginCalls, alerts, unhandled>>

\* lines 12-40: assign the handlers, then the initial check
NavbarEffect ==
    /\ screen = "app"
    /\ effectRuns < StrictModeRuns
    /\ effectRuns' = effectRuns + 1
    /\ navAuth' = updateAuthState(kcAuth)
    /\ UNCHANGED <<env, pc, handle, initState, initCalls, screen, kcAuth, tokenParsed,
                   path, locState, gateFlag, routeOut, logouts, refreshes, loginCalls,
                   alerts, unhandled>>

\* line 15: the adapter has a session (authenticated = true) and fires onAuthSuccess
OnAuthSuccess ==
    /\ initState # "none"
    /\ kcAuth' = "true"
    /\ tokenParsed' = TokenParsed(kcAuth')
    /\ navAuth' = Notify(kcAuth')
    /\ UNCHANGED <<env, pc, handle, initState, initCalls, screen, effectRuns, path,
                   locState, gateFlag, routeOut, logouts, refreshes, loginCalls, alerts,
                   unhandled>>

\* line 16: the adapter has cleared the session and fires onAuthLogout
OnAuthLogout ==
    /\ initState # "none"
    /\ kcAuth' = "false"
    /\ tokenParsed' = TokenParsed(kcAuth')
    /\ navAuth' = Notify(kcAuth')
    /\ UNCHANGED <<env, pc, handle, initState, initCalls, screen, effectRuns, path,
                   locState, gateFlag, routeOut, logouts, refreshes, loginCalls, alerts,
                   unhandled>>

\* line 17: the adapter has stored refreshed tokens and fires onAuthRefreshSuccess
OnAuthRefreshSuccess ==
    /\ initState # "none"
    /\ kcAuth' = "true"
    /\ tokenParsed' = TokenParsed(kcAuth')
    /\ navAuth' = Notify(kcAuth')
    /\ UNCHANGED <<env, pc, handle, initState, initCalls, screen, effectRuns, path,
                   locState, gateFlag, routeOut, logouts, refreshes, loginCalls, alerts,
                   unhandled>>

\* lines 22-24: keycloak.updateToken(30) on every token expiry
TokenExpiredHandler(pending) ==
    IF Subscribed
    THEN Append(pending, [minValidity |-> MinValidity, stale |-> FALSE])
    ELSE pending

\* lines 18-21: keycloak.logout() on every refresh error
RefreshErrorHandler(calls) ==
    IF Subscribed THEN Append(calls, "onAuthRefreshError") ELSE calls

\* OnAuthRefreshError with the handler retrying the refresh instead of logging out
OnAuthRefreshErrorRetries ==
    /\ initState # "none"
    /\ Len(refreshes) < MaxPending
    /\ refreshes' = TokenExpiredHandler(refreshes)
    /\ UNCHANGED <<env, pc, handle, initState, initCalls, screen, kcAuth, tokenParsed,
                   effectRuns, navAuth, path, locState, gateFlag, routeOut, logouts,
                   loginCalls, alerts, unhandled>>

OnAuthRefreshError ==
    /\ initState # "none"
    /\ Len(logouts) < MaxCalls
    /\ logouts' = RefreshErrorHandler(logouts)
    /\ UNCHANGED <<env, pc, handle, initState, initCalls, screen, kcAuth, tokenParsed,
                   effectRuns, navAuth, path, locState, gateFlag, routeOut, refreshes,
                   loginCalls, alerts, unhandled>>

OnTokenExpired ==
    /\ initState # "none"
    /\ Len(refreshes) < MaxPending
    /\ refreshes' = TokenExpiredHandler(refreshes)
    /\ UNCHANGED <<env, pc, handle, initState, initCalls, screen, kcAuth, tokenParsed,
                   effectRuns, navAuth, path, locState, gateFlag, routeOut, logouts,
                   loginCalls, alerts, unhandled>>

Remove(s, i) == SubSeq(s, 1, i - 1) \o SubSeq(s, i + 1, Len(s))

\* line 24: the promise of updateToken(30) resolves; no .then is attached
UpdateTokenResolved(i) ==
    /\ i \in 1..Len(refreshes)
    /\ refreshes' = Remove(refreshes, i)
    /\ UNCHANGED <<env, pc, handle, initState, initCalls, screen, kcAuth, tokenParsed,
                   effectRuns, navAuth, path, locState, gateFlag, routeOut, logouts,
                   loginCalls, alerts, unhandled>>

\* UpdateTokenCatch with the rejection swallowed
UpdateTokenCatchSwallow(calls, refresh) == calls

\* lines 24-27: the .catch callback calls keycloak.logout() whatever happened since
UpdateTokenCatch(calls, refresh) == Append(calls, "updateTokenCatch")

UpdateTokenRejected(i) ==
    /\ i \in 1..Len(refreshes)
    /\ Len(logouts) < MaxCalls
    /\ refreshes' = Remove(refreshes, i)
    /\ logouts' = UpdateTokenCatch(logouts, refreshes[i])
    /\ UNCHANGED <<env, pc, handle, initState, initCalls, screen, kcAuth, tokenParsed,
                   effectRuns, navAuth, path, locState, gateFlag, routeOut, loginCalls,
                   alerts, unhandled>>

\* lines 43-46, 65: the Login button is shown while isAuthenticated is falsy
handleLogin ==
    /\ screen = "app"
    /\ navAuth # "true"
    /\ loginCalls < MaxClicks
    /\ loginCalls' = loginCalls + 1
    /\ UNCHANGED <<env, pc, handle, initState, initCalls, screen, kcAuth, tokenParsed,
                   effectRuns, navAuth, path, locState, gateFlag, routeOut, logouts,
                   refreshes, alerts, unhandled>>

\* handleLogout clearing the session itself (keycloak.authenticated = false;
\* keycloak.tokenParsed = undefined) before calling keycloak.logout()
handleLogoutClearsSession ==
    /\ screen = "app"
    /\ navAuth = "true"
    /\ Len(logouts) < MaxCalls
    /\ alerts < MaxClicks
    /\ alerts' = alerts + 1
    /\ logouts' = Append(logouts, "handleLogout")
    /\ kcAuth' = "false"
    /\ tokenParsed' = Undefined
    /\ UNCHANGED <<env, pc, handle, initState, initCalls, screen, effectRuns, navAuth,
                   path, locState, gateFlag, routeOut, refreshes, loginCalls, unhandled>>

\* handleLogout with an optimistic setIsAuthenticated(false) added
handleLogoutOptimistic ==
    /\ screen = "app"
    /\ navAuth = "true"
    /\ Len(logouts) < MaxCalls
    /\ alerts < MaxClicks
    /\ alerts' = alerts + 1
    /\ logouts' = Append(logouts, "handleLogout")
    /\ navAuth' = "false"
    /\ UNCHANGED <<env, pc, handle, initState, initCalls, screen, kcAuth, tokenParsed,
                   effectRuns, path, locState, gateFlag, routeOut, refreshes, loginCalls,
                   unhandled>>

\* lines 48-52, 63: the Logout button is shown while isAuthenticated is truthy;
\* alert("logout"), then keycloak.logout()
handleLogout ==
    /\ screen = "app"
    /\ navAuth = "true"
    /\ Len(logouts) < MaxCalls
    /\ alerts < MaxClicks
    /\ alerts' = alerts + 1
    /\ logouts' = Append(logouts, "handleLogout")
    /\ UNCHANGED <<env, pc, handle, initState, initCalls, screen, kcAuth, tokenParsed,
                   effectRuns, navAuth, path, locState, gateFlag, routeOut, refreshes,
                   loginCalls, unhandled>>

\* the adapter ends the session of the oldest logout call without leaving the page:
\* authenticated becomes false, onAuthLogout fires, and every updateToken promise
\* still in flight was started before this logout
MarkStale(pending) ==
    [i \in 1..Len(pending) |-> [pending[i] EXCEPT !.stale = TRUE]]

LogoutCompleted ==
    /\ Len(logouts) > 0
    /\ logouts' = Tail(logouts)
    /\ kcAuth' = "false"
    /\ tokenParsed' = TokenParsed(kcAuth')
    /\ navAuth' = Notify(kcAuth')
    /\ refreshes' = MarkStale(refreshes)
    /\ UNCHANGED <<env, pc, handle, initState, initCalls, screen, effectRuns, path,
                   locState, gateFlag, routeOut, loginCalls, alerts, unhandled>>

\* lines 20 and 26: the Session Watcher's calls of keycloak.logout()
WatcherCall(origin) == origin \in {"onAuthRefreshError", "updateTokenCatch"}

\* lines 20, 26, 51: whether the promise keycloak.logout() returns is given a
\* rejection handler; all three calls drop the promise
LogoutRejectionCaught(origin) == FALSE

\* the adapter rejects the promise of the oldest logout call; the session stays
LogoutFailed ==
    /\ Len(logouts) > 0
    /\ logouts' = Tail(logouts)
    /\ unhandled' = (unhandled \/ (WatcherCall(Head(logouts))
                                    /\ ~LogoutRejectionCaught(Head(logouts))))
    /\ UNCHANGED <<env, pc, handle, initState, initCalls, screen, kcAuth, tokenParsed,
                   effectRuns, navAuth, path, locState, gateFlag, routeOut, refreshes,
                   loginCalls, alerts>>

\* lines 56-59: <Link to="/"> always, <Link to="/protected"> only while isAuthenticated;
\* neither passes a state, and only <Routes> re-renders on the new location
LinkShown(p) == p = "/" \/ (p = "/protected" /\ navAuth = "true")

ClickLink(p) ==
    /\ screen = "app"
    /\ LinkShown(p)
    /\ path' = p
    /\ locState' = NoState
    /\ gateFlag' = GateRead(p, kcAuth)
    /\ routeOut' = Routes(p, kcAuth)
    /\ loginCalls' = RoutesLoginCalls(p, kcAuth, loginCalls)
    /\ UNCHANGED <<env, pc, handle, initState, initCalls, screen, kcAuth, tokenParsed,
                   effectRuns, navAuth, logouts, refreshes, alerts, unhandled>>

\* App.tsx line 12: <BrowserRouter> follows the browser's back and forward buttons
PopState(p) ==
    /\ screen = "app"
    /\ path' = p
    /\ locState' = NoState
    /\ gateFlag' = GateRead(p, kcAuth)
    /\ routeOut' = Routes(p, kcAuth)
    /\ loginCalls' = RoutesLoginCalls(p, kcAuth, loginCalls)
    /\ UNCHANGED <<env, pc, handle, initState, initCalls, screen, kcAuth, tokenParsed,
                   effectRuns, navAuth, logouts, refreshes, alerts, unhandled>>

\* the user reloads the page (or a login/logout redirect comes back): every module is
\* evaluated again from the top
Reload(p) ==
    /\ pc = "done"
    /\ pc' = "import"
    /\ handle' = NoHandle
    /\ initState' = "none"
    /\ initCalls' = 0
    /\ screen' = "blank"
    /\ kcAuth' = Undefined
    /\ tokenParsed' = Undefined
    /\ effectRuns' = 0
    /\ navAuth' = "unmounted"
    /\ path' = p
    /\ locState' = NoState
    /\ gateFlag' = "none"
    /\ routeOut' = "none"
    /\ logouts' = <<>>
    /\ refreshes' = <<>>
    /\ loginCalls' = 0
    /\ alerts' = 0
    /\ unhandled' = FALSE
    /\ UNCHANGED env

\* ------------------------------------------------------------ properties
TypeOK ==
    /\ env \in Envs
    /\ pc \in {"import", "main", "done"}
    /\ initState \in {"none", "pending", "resolved", "rejected"}
    /\ initCalls \in 0..1
    /\ screen \in {"blank", "loading", "app", "error"}
    /\ kcAuth \in Flags
    /\ tokenParsed \in {Undefined, "claims"}
    /\ effectRuns \in 0..StrictModeRuns
    /\ navAuth \in Flags \cup {"unmounted"}
    /\ path \in Paths
    /\ gateFlag \in Flags \cup {"none"}
    /\ routeOut \in {"none", "PublicPage", "ProtectedPage", "Unauthorized", "NotFound"}
    /\ logouts \in Seq(LogoutOrigins) /\ Len(logouts) <= MaxCalls
    /\ Len(refreshes) <= MaxPending
    /\ loginCalls \in 0..MaxClicks
    /\ alerts \in 0..MaxClicks
    /\ unhandled \in BOOLEAN

\* a step within one page load
SamePage == ~(pc = "done" /\ pc' = "import")

\* C1: while keycloak.init has not settled, the loading message is all that is
\* rendered: no route element, no Navbar, and no ProtectedRoute evaluation,
\* whatever keycloak.authenticated is at that moment.
C1_LoadingUntilSettled ==
    /\ initState = "pending" => screen = "loading"
    /\ initState \in {"none", "pending"} =>
          /\ screen # "app"
          /\ routeOut = "none"
          /\ gateFlag = "none"
          /\ navAuth = "unmounted"

\* init is pending on the gated path while the adapter already reports a session
C1_Witness ==
    initState = "pending" /\ kcAuth = "true" /\ path = "/protected" /\ screen = "loading"

\* C2: whenever ProtectedRoute has been evaluated, the protected page is shown
\* iff the flag it read was true, and a false or unset flag gives the
\* Unauthorized panel.
C2_GateIffAuthenticated ==
    gateFlag # "none" =>
        /\ initState = "resolved"
        /\ (routeOut = "ProtectedPage") <=> (gateFlag = "true")
        /\ gateFlag \in {Undefined, "false"} => routeOut = "Unauthorized"

\* the gate was evaluated with the flag unset and denied
C2_Witness == gateFlag = Undefined /\ routeOut = "Unauthorized" /\ path = "/protected"

\* C3: a gate evaluation that denies shows the denial once and leaves the
\* attempted path in location.state for the login flow (the Navigation Intent).
C3_DenialCapturesIntent ==
    (initState = "resolved" /\ Gated(path) /\ gateFlag \in {Undefined, "false"}) =>
        /\ routeOut = "Unauthorized"
        /\ locState # NoState
        /\ locState.from = path

\* keycloak.logout() calls in flight that the Session Watcher issued
ForcedLogouts == {i \in 1..Len(logouts) : logouts[i] # "handleLogout"}

\* C4: refresh-failure signals that arrive before a logout completes lead to
\* one forced logout call, not to one per signal.
C4_OneForcedLogout == Cardinality(ForcedLogouts) <= 1

ConfigMissing(e) == e.url = Undefined \/ e.realm = Undefined \/ e.clientId = Undefined

\* C5: with a configuration value missing, no Keycloak instance is constructed
\* and keycloak.init is never called.
C5_MissingConfigHalts ==
    ConfigMissing(env) => (handle = NoHandle /\ initCalls = 0 /\ initState = "none")

\* C6: once init has rejected the error panel is shown, and within the page
\* load it stays: init is not called again and <App/> (routes, gate, Navbar
\* subscriptions) is never rendered.
C6_FailedStaysFailed ==
    /\ [](initState = "rejected" =>
            /\ screen = "error"
            /\ initCalls = 1
            /\ routeOut = "none"
            /\ gateFlag = "none"
            /\ navAuth = "unmounted"
            /\ effectRuns = 0)
    /\ [][(initState = "rejected" /\ SamePage) =>
            (initState' = "rejected" /\ screen' = "error" /\ initCalls' = initCalls)]_vars

\* init has failed and the adapter has fired events since
C6_Witness == initState = "rejected" /\ screen = "error" /\ kcAuth = "true"

\* C7: keycloak.init is called once per page load, by the time main.tsx has
\* run, and before anything of <App/> is rendered; renders, effects (run twice
\* under StrictMode) and events never call it again.
C7_InitOnce ==
    /\ initCalls <= 1
    /\ pc = "done" => initCalls = 1
    /\ (screen = "app" \/ routeOut # "none" \/ navAuth # "unmounted" \/ effectRuns > 0) =>
          (initCalls = 1 /\ initState = "resolved")

\* the effect has run twice, the protected page is shown and a logout call is in flight
C7_Witness ==
    /\ effectRuns = StrictModeRuns
    /\ routeOut = "ProtectedPage"
    /\ Len(logouts) > 0
    /\ initCalls = 1

\* C8: settling an updateToken promise that was in flight when a logout
\* completed changes no local state and issues no logout call.
C8_StaleRefreshIgnored ==
    [][\A i \in 1..Len(refreshes) :
          (refreshes[i].stale /\ refreshes' = Remove(refreshes, i)) =>
              (logouts' = logouts /\ navAuth' = navAuth)]_vars

\* C9: once the handlers are attached, an auth-success or refresh-success
\* event leaves isAuthenticated true and a logout event leaves it false.
C9_EventsUpdateLocalFlag ==
    [][Subscribed =>
          /\ OnAuthSuccess => navAuth' = "true"
          /\ OnAuthRefreshSuccess => navAuth' = "true"
          /\ OnAuthLogout => navAuth' = "false"
          /\ LogoutCompleted => navAuth' = "false"]_vars

\* bootstrap settled unauthenticated (the gate denied), and
\* an event has since made the Navbar's flag true
C9_Witness ==
    Subscribed /\ path = "/protected" /\ gateFlag = "false" /\ navAuth = "true"

\* C10: a token-expired event handled by the Session Watcher starts
\* updateToken(30) and calls no logout; a rejection of that promise calls
\* logout; a resolution calls none.
C10_ExpiryRefreshesThenLogout ==
    [][/\ (Subscribed /\ OnTokenExpired) =>
            /\ refreshes' = Append(refreshes, [minValidity |-> 30, stale |-> FALSE])
            /\ logouts' = logouts
       /\ \A i \in 1..Len(refreshes) :
            /\ UpdateTokenRejected(i) => logouts' = Append(logouts, "updateTokenCatch")
            /\ UpdateTokenResolved(i) => logouts' = logouts]_vars

\* a refresh started by token expiry was rejected and its logout call is in flight
C10_Witness ==
    /\ \E i \in 1..Len(logouts) : logouts[i] = "updateTokenCatch"
    /\ Len(refreshes) > 0

\* C11: no render of <Routes>, and so no evaluation of ProtectedRoute, calls
\* keycloak.login(): within a page load the number of login calls changes
\* only by a click on the Login button, which renders no route.
C11_GateNeverCallsLogin ==
    [][/\ (\/ \E a \in Flags : InitResolved(a)
           \/ \E p \in Paths : ClickLink(p) \/ PopState(p)) => loginCalls' = loginCalls
       /\ (SamePage /\ loginCalls' # loginCalls) =>
            /\ screen = "app" /\ navAuth # "true"
            /\ loginCalls' = loginCalls + 1
            /\ path' = path /\ gateFlag' = gateFlag /\ routeOut' = routeOut]_vars

\* the gate has denied with the flag false, and the one login call came from a click
C11_Witness ==
    gateFlag = "false" /\ routeOut = "Unauthorized" /\ kcAuth = "false" /\ loginCalls = 1

\* the application's own UI state: what root renders, the Navbar's flag and
\* subscriptions, the location and what <Routes> shows for it
LocalUI == <<screen, navAuth, effectRuns, path, locState, gateFlag, routeOut>>

\* C12: a Login click adds one keycloak.login() call and a Logout click one
\* keycloak.logout() call, and neither changes the Navbar's flag or any other
\* local UI state; within a page load the flag changes only in steps that
\* make no login or logout call.
C12_LoginLogoutOnlyDelegate ==
    [][/\ handleLogin =>
            /\ UNCHANGED LocalUI
            /\ loginCalls' = loginCalls + 1
            /\ logouts' = logouts
       /\ handleLogout =>
            /\ UNCHANGED LocalUI
            /\ logouts' = Append(logouts, "handleLogout")
            /\ loginCalls' = loginCalls
       /\ (SamePage /\ navAuth' # navAuth) =>
            /\ loginCalls' = loginCalls
            /\ alerts' = alerts
            /\ Len(logouts') <= Len(logouts)]_vars

\* Logout has been clicked, its call is in flight, and the Navbar's flag is still true
C12_Witness ==
    alerts = 1 /\ logouts = <<"handleLogout">> /\ navAuth = "true" /\ kcAuth = "true"

\* the steps made of application code alone: module bodies, the Navbar's effect
\* and click handlers, route renders, and the handlers and promise callbacks
\* that are not preceded by a session change of the adapter
ApplicationStep ==
    \/ KeycloakModule
    \/ Main
    \/ NavbarEffect
    \/ handleLogin
    \/ handleLogout
    \/ \E p \in Paths : ClickLink(p) \/ PopState(p)
    \/ OnAuthRefreshError
    \/ OnTokenExpired
    \/ \E i \in 1..MaxPending : UpdateTokenResolved(i) \/ UpdateTokenRejected(i)

\* C13: no step of application code changes keycloak.authenticated or
\* keycloak.tokenParsed.
C13_SessionStateReadOnly ==
    [][ApplicationStep => (kcAuth' = kcAuth /\ tokenParsed' = tokenParsed)]_vars

\* with a session present, the application has called logout and updateToken and
\* rendered the protected page, and the session state is as the adapter left it
C13_Witness ==
    /\ kcAuth = "true" /\ tokenParsed = "claims"
    /\ routeOut = "ProtectedPage"
    /\ Len(logouts) > 0 /\ Len(refreshes) > 0

\* C14: neither the onAuthRefreshError handler nor the rejection callback of
\* updateToken starts an updateToken call; within a page load a new call is
\* started only by the token-expired handler, in a step that calls no logout.
C14_NoRefreshAfterFailure ==
    [][/\ OnAuthRefreshError => refreshes' = refreshes
       /\ \A i \in 1..Len(refreshes) :
            UpdateTokenRejected(i) => refreshes' = Remove(refreshes, i)
       /\ (SamePage /\ Len(refreshes') > Len(refreshes)) =>
            /\ Subscribed
            /\ refreshes' = Append(refreshes, [minValidity |-> 30, stale |-> FALSE])
            /\ logouts' = logouts]_vars

\* both kinds of refresh failure have been handled and no refresh is in flight
C14_Witness ==
    logouts = <<"updateTokenCatch", "onAuthRefreshError">> /\ refreshes = <<>>

\* C15: a rejected init gives the error panel, a rejected updateToken gives a
\* logout call, and no rejection of a Session Watcher call is left without a
\* handler.
C15_AdapterFailuresCaught ==
    /\ initState = "rejected" => screen = "error"
    /\ ~unhandled

\* C16: once init has resolved, the protected page is on screen only while
\* keycloak.authenticated is true.
C16_ProtectedOnlyWhileAuthenticated ==
    (initState = "resolved" /\ routeOut = "ProtectedPage") => kcAuth = "true"

\* keycloak.authenticated with unset counted as false
AdapterFlag == IF kcAuth = "true" THEN "true" ELSE "false"

\* C17: once the Navbar's effect has run, isAuthenticated equals
\* keycloak.authenticated (unset counted as false), so the Protected link and
\* the Logout button are shown exactly when ProtectedRoute would let through.
C17_NavbarMatchesAdapter ==
    effectRuns > 0 =>
        /\ navAuth = AdapterFlag
        /\ LinkShown("/protected") <=> (ProtectedRoute(kcAuth) = "outlet")
        /\ (navAuth = "true") <=> (ProtectedRoute(kcAuth) = "outlet")

\* the gate let through earlier, and a logout event has since turned both flags false
C17_Witness ==
    effectRuns > 0 /\ gateFlag = "true" /\ kcAuth = "false" /\ navAuth = "false"

\* an adapter event, or the in-page completion of a logout
AdapterEvent ==
    \/ OnAuthSuccess
    \/ OnAuthLogout
    \/ OnAuthRefreshSuccess
    \/ OnAuthRefreshError
    \/ OnTokenExpired
    \/ LogoutCompleted

\* C18: the effect has run only if init resolved and <App/> is rendered; an
\* adapter event that arrives before the effect has run changes no local state
\* and makes no adapter call; and the effect's initial check sets
\* isAuthenticated to the adapter's flag of that moment.
C18_NoHandlerBeforeBootstrap ==
    /\ [](effectRuns > 0 => (initState = "resolved" /\ screen = "app"))
    /\ [][(effectRuns = 0 /\ AdapterEvent) =>
            /\ UNCHANGED LocalUI
            /\ Len(logouts') <= Len(logouts)
            /\ Len(refreshes') = Len(refreshes)
            /\ loginCalls' = loginCalls]_vars
    /\ [][NavbarEffect => (navAuth' = AdapterFlag /\ kcAuth' = kcAuth)]_vars

\* <App/> is rendered, the effect has not run yet, and an auth-success event has
\* passed without reaching the Navbar
C18_Witness ==
    screen = "app" /\ effectRuns = 0 /\ kcAuth = "true" /\ navAuth = "false"

Init ==
    /\ env \in Envs
    /\ pc = "import"
    /\ handle = NoHandle
    /\ initState = "none"
    /\ initCalls = 0
    /\ screen = "blank"
    /\ kcAuth = Undefined
    /\ tokenParsed = Undefined
    /\ effectRuns = 0
    /\ navAuth = "unmounted"
    /\ path \in Paths
    /\ locState = NoState
    /\ gateFlag = "none"
    /\ routeOut = "none"
    /\ logouts = <<>>
    /\ refreshes = <<>>
    /\ loginCalls = 0
    /\ alerts = 0
    /\ unhandled = FALSE

Next ==
    \/ KeycloakModule
    \/ Main
    \/ \E a \in Flags : InitResolved(a)
    \/ InitRejected
    \/ NavbarEffect
    \/ OnAuthSuccess
    \/ OnAuthLogout
    \/ OnAuthRefreshSuccess
    \/ OnAuthRefreshError
    \/ OnTokenExpired
    \/ \E i \in 1..MaxPending : UpdateTokenResolved(i)
    \/ \E i \in 1..MaxPending : UpdateTokenRejected(i)
    \/ handleLogin
    \/ handleLogout
    \/ LogoutCompleted
    \/ LogoutFailed
    \/ \E p \in Paths : ClickLink(p)
    \/ \E p \in Paths : PopState(p)
    \/ \E p \in Paths : Reload(p)

Spec == Init /\ [][Next]_vars
====
